---- MODULE Spec2Model ----
(***************************************************************************)
(* Model of src/async_traits.rs: the asynchronous facade over a blocking   *)
(* database connection.  Asynchronous tasks hold clones of a connection    *)
(* handle; every database operation is a closure handed to the blocking    *)
(* pool (spawn_blocking), which locks the connection, runs, and drops the  *)
(* guard; the task awaits the join handle and unwraps it.                  *)
(***************************************************************************)
EXTENDS Integers, Sequences, FiniteSets, TLC

\* Bounds of the model.
MaxCalls == 3       \* calls made in one run, all tasks together

\* Two tasks and two connections.  Under Spec task 2 holds a clone of task
\* 1's handle; under SpecIndependent it holds the handle of connection 2.
Tasks == {1, 2}
Conns == {1, 2}
Rows == {1}         \* the unique keys of the one table

VARIABLES
    handle,    \* task -> the connection its handle refers to
    pc,        \* task -> "idle" | "wait" | "block" | "aborted" | "unwound"
    frames,    \* task -> stack of open transaction_async calls
    closure,   \* task -> the blocking closure the task awaits
    lock,      \* connection -> task whose closure holds the MutexGuard, or 0
    db,        \* connection -> stack of table contents, one per open level
    pending,   \* task -> closures submitted and not yet ended (history)
    done,      \* the call that the last step resolved, if any (history)
    calls,     \* calls made so far (bounds the run)
    retained   \* task -> the connection of the block handle the task has
               \* kept from a concluded transaction_async, or 0

vars ==
    <<handle, pc, frames, closure, lock, db, pending, done, calls, retained>>

----------------------------------------------------------------------------
\* Results.  A value is a tuple of numbers, an error a tuple of strings.
Ok(n) == [tag |-> "Ok", v |-> <<n>>]
Err(e) == [tag |-> "Err", v |-> e]
Panic == [tag |-> "Panic", v |-> <<>>]
NoRes == [tag |-> "None", v |-> <<>>]
SameRes(a, b) == a.tag = b.tag /\ a.v = b.v

\* The three From conversions the signatures require.
DieselToConnErr(e) == <<"ConnErr">> \o e
ConnErrToE(e) == <<"E">> \o e
DieselToE(e) == <<"E">> \o e
UserError == <<"E", "User">>
UserValue == 7

\* Variant: the conversion loses the native error.
MapErr_Generic(r) == IF r.tag = "Err" THEN Err(<<"ConnErr">>) ELSE r

\* map_err(ConnErr::from) / map_err(E::from) on a closure's native result
MapErr(r) == IF r.tag = "Err" THEN Err(DieselToConnErr(r.v)) ELSE r

----------------------------------------------------------------------------
\* The wrapped connection: a stack of table contents.  db[c][1] is the
\* committed table, each open transaction level adds a working copy.
Top(s) == s[Len(s)]
SetTop(s, x) == [s EXCEPT ![Len(s)] = x]
Depth(s) == Len(s) - 1
DropTop(s) == SubSeq(s, 1, Len(s) - 1)

\* The query of the model: insert a key, a write that fails on a key
\* already there.
Ops == [k : {"insert"}, row : Rows]
IsOp(ins) == ins.k = "insert"
TmInstr(k) == [k |-> k, row |-> 0]

\* A synchronous query O run directly on connection state s.
SyncOp(op, s) ==
    IF op.row \in Top(s)
    THEN [res |-> Err(<<"UniqueViolation">>), st |-> s]
    ELSE [res |-> Ok(1), st |-> SetTop(s, Top(s) \cup {op.row})]

\* TransactionManager::begin_transaction / commit_transaction /
\* rollback_transaction, when the database accepts the command.
BeginTransaction(s) == [res |-> Ok(0), st |-> Append(s, Top(s))]
CommitTransaction(s) ==
    IF Depth(s) = 0 THEN [res |-> Err(<<"NotInTransaction">>), st |-> s]
    ELSE [res |-> Ok(0), st |-> SetTop(DropTop(s), Top(s))]
RollbackTransaction(s) ==
    IF Depth(s) = 0 THEN [res |-> Err(<<"NotInTransaction">>), st |-> s]
    ELSE [res |-> Ok(0), st |-> DropTop(s)]

\* What can happen to one instruction: it runs ("ok"), the database
\* refuses a transaction command ("fail"), or the thread panics.
Fates(ins) == IF IsOp(ins) THEN {"ok", "panic"}
              ELSE {"ok", "fail", "panic"}

Exec(ins, s, fate) ==
    IF fate = "panic" THEN [res |-> Panic, st |-> s]
    ELSE IF IsOp(ins) THEN SyncOp(ins, s)
    ELSE IF fate = "fail" THEN [res |-> Err(<<ins.k>>), st |-> s]
    ELSE IF ins.k = "begin" THEN BeginTransaction(s)
    ELSE IF ins.k = "commit" THEN CommitTransaction(s)
    ELSE RollbackTransaction(s)

----------------------------------------------------------------------------
\* The blocking closure a task has handed to spawn_blocking, and the
\* connection of the handle that was moved into it.  pre and post
\* (the connection before and after a query) and intruded (another task's
\* instruction ran after this closure's first and before its last) are
\* history.
NoClosure ==
    [st |-> "none", kind |-> "none", conn |-> 0, instrs |-> <<>>,
     fres |-> NoRes, op |-> TmInstr("none"), pre |-> <<>>, post |-> <<>>,
     intruded |-> FALSE]

\* One open transaction_async call.  begin is the result of its begin relay,
\* user the block's result, lastr the result of the block's last call.  The rest is history: the connection
\* before begin ran, the connection a private synchronous transaction would
\* have produced from it, the connection right after commit or rollback
\* ran, whether another task's instruction ran in between, and whether the
\* block has written, and the transaction-manager calls the call has made on
\* the connection, in order.
NewFrame ==
    [begin |-> NoRes, user |-> NoRes, lastr |-> NoRes, pre |-> <<>>,
     shadow |-> <<>>, post |-> <<>>, intruded |-> FALSE, wrote |-> FALSE,
     tm |-> <<>>]

NoDone ==
    [task |-> 0, kind |-> "none", conn |-> 0, op |-> TmInstr("none"),
     begin |-> NoRes, user |-> NoRes,
     step |-> NoRes, res |-> NoRes, pre |-> <<>>, shadow |-> <<>>,
     post |-> <<>>, intruded |-> FALSE, wrote |-> FALSE, tm |-> <<>>]

Start(h) ==
    /\ handle = h
    /\ pc = [t \in Tasks |-> "idle"]
    /\ frames = [t \in Tasks |-> <<>>]
    /\ closure = [t \in Tasks |-> NoClosure]
    /\ lock = [c \in Conns |-> 0]
    /\ db = [c \in Conns |-> << {} >>]
    /\ pending = [t \in Tasks |-> 0]
    /\ done = NoDone
    /\ calls = 0
    /\ retained = [t \in Tasks |-> 0]

Init == Start([t \in Tasks |-> 1])
InitIndependent == Start([t \in Tasks |-> t])

\* The run is bounded by the number of calls made.  The two tasks are
\* interchangeable, so the first call of a run is taken to be task 1's.
CanCall(t) == calls < MaxCalls /\ (calls = 0 => t = 1)

\* spawn_blocking(move || f(&mut *Self::as_sync_conn(&connection)))
SpawnBlocking(t, c, kind, instrs) ==
    /\ closure' = [closure EXCEPT ![t] =
           [NoClosure EXCEPT !.st = "queued", !.kind = kind, !.conn = c,
                             !.instrs = instrs, !.op = instrs[1]]]
    /\ pending' = [pending EXCEPT ![t] = @ + 1]
    /\ pc' = [pc EXCEPT ![t] = "wait"]
    /\ done' = NoDone

\* Variant: the user block is given a handle of another connection.
BlockHandle_OtherConnection(c) == CHOOSE c2 \in Conns : c2 # c

\* SingleConnection(Self::as_async_conn(&conn).0.clone()): the handle given
\* to the user block is a clone of the shared pointer to the connection that
\* was checked out, so it refers to that connection.
BlockHandle(c) == c

\* The handles the code of task t can call through: inside a user block the
\* block's handle, outside the task's own, and in both cases the copy of a
\* block handle kept from a concluded transaction_async.
Handles(t) ==
    {IF pc[t] = "block" THEN BlockHandle(handle[t]) ELSE handle[t]}
        \cup ({retained[t]} \ {0})

\* run(f), as called by execute_async and its siblings with f = one query,
\* through handle h.  get_owned_connection clones the handle,
\* run_with_connection submits f.
Run(t, h, op) ==
    /\ pc[t] \in {"idle", "block"}
    /\ h \in Handles(t)
    /\ CanCall(t)
    /\ calls' = calls + 1
    /\ SpawnBlocking(t, h, "run", <<op>>)
    /\ UNCHANGED <<handle, frames, lock, db, retained>>

\* transaction(f): one closure running the library's own transaction
\* helper around f; f is one query and returns what the query returns.
Transaction(t, op) ==
    /\ pc[t] \in {"idle", "block"}
    /\ CanCall(t)
    /\ calls' = calls + 1
    /\ SpawnBlocking(t, handle[t], "txn",
                     <<TmInstr("begin"), op, TmInstr("finish")>>)
    /\ UNCHANGED <<handle, frames, lock, db, retained>>

\* transaction_async(f), up to the first await: check out the connection
\* and submit begin_transaction.
TransactionAsync(t) ==
    /\ pc[t] \in {"idle", "block"}
    /\ CanCall(t)
    /\ calls' = calls + 1
    /\ frames' = [frames EXCEPT ![t] = Append(@, NewFrame)]
    /\ SpawnBlocking(t, handle[t], "begin", <<TmInstr("begin")>>)
    /\ UNCHANGED <<handle, lock, db, retained>>

\* Variants: no exclusion at all; one lock for all connections.
CanLock_NoExclusion(c) == TRUE
CanLock_Global(c) == \A c2 \in Conns : lock[c2] = 0

\* as_sync_conn: the MutexGuard is granted when nobody holds it.
CanLock(c) == lock[c] = 0

\* Variants: the guard is dropped after every instruction; the guard is
\* never dropped.
GuardDropped_EveryInstruction(rest) == TRUE
GuardDropped_Never(rest) == FALSE

\* The guard is a temporary of the closure's one statement: it is dropped
\* when the closure has nothing left to run (or unwinds).
GuardDropped(rest) == rest = <<>>

\* The library's transaction helper decides commit or rollback by f's result.
Resolve(ins, fres) ==
    IF ins.k = "finish"
    THEN IF fres.tag = "Ok" THEN TmInstr("commit") ELSE TmInstr("rollback")
    ELSE ins

\* The closure's result so far, after instruction real returned r.
ClosureResult(cl, real, r) ==
    IF cl.kind # "txn" THEN MapErr(r)
    ELSE IF real.k = "begin"
         THEN IF r.tag = "Err" THEN Err(DieselToE(r.v)) ELSE NoRes
    ELSE IF IsOp(real)
         THEN IF r.tag = "Err" THEN Err(DieselToE(r.v)) ELSE r
    ELSE IF r.tag = "Err" THEN Err(DieselToE(r.v)) ELSE cl.fres

\* History: every open frame of the task replays the instruction on its
\* private copy; the frame whose begin, commit or rollback this is records
\* the connection before and after.  A begun frame of another task on the
\* same connection replays queries, but not transaction commands, and notes
\* that another task's instruction has run inside it.
Replay(fs, kind, real, fate, before, after) ==
    [i \in 1..Len(fs) |->
        IF i = Len(fs) /\ kind = "begin"
        THEN [fs[i] EXCEPT !.pre = before,
                           !.shadow = Exec(real, before, fate).st,
                           !.tm = Append(@, real.k)]
        ELSE IF i = Len(fs) /\ kind \in {"commit", "rollback"}
        THEN [fs[i] EXCEPT !.shadow = Exec(real, @, fate).st, !.post = after,
                           !.tm = Append(@, real.k)]
        ELSE [fs[i] EXCEPT !.shadow = Exec(real, @, fate).st,
                           !.wrote = @ \/ (IsOp(real) /\ after # before)]]

ReplayOther(fs, real, fate) ==
    [i \in 1..Len(fs) |->
        IF fs[i].shadow # <<>> /\ fs[i].post = <<>>
        THEN [fs[i] EXCEPT !.intruded = @ \/ fate = "ok",
                           !.shadow = IF IsOp(real) THEN Exec(real, @, fate).st
                                      ELSE @]
        ELSE fs[i]]

\* transaction(f) has run its begin and not yet its commit or rollback.
InSyncTransaction(cl) == cl.kind = "txn" /\ Len(cl.instrs) \in {1, 2}

\* A pool thread runs the closure: it obtains the guard (waiting while
\* another closure holds it) and runs the closure's next instruction on the
\* locked connection.
ClosureStep(t, fate) ==
    LET cl == closure[t]
        c == cl.conn
        real == Resolve(Head(cl.instrs), cl.fres)
        out == Exec(real, db[c], fate)
        panicked == out.res.tag = "Panic"
        stop == panicked \/ (real.k = "begin" /\ out.res.tag = "Err")
        rest == IF stop THEN <<>> ELSE Tail(cl.instrs)
    IN  /\ \/ cl.st = "queued" /\ CanLock(c)
           \/ cl.st = "running"
        /\ fate \in Fates(real)
        /\ db' = [db EXCEPT ![c] = out.st]
        /\ closure' = [u \in Tasks |->
              IF u # t
              THEN IF handle[u] = c /\ InSyncTransaction(closure[u])
                   THEN [closure[u] EXCEPT !.intruded = TRUE] ELSE closure[u]
              ELSE
              [cl EXCEPT !.instrs = rest,
                         !.fres = IF panicked THEN NoRes
                                  ELSE ClosureResult(cl, real, out.res),
                         !.pre = IF cl.kind = "run" THEN db[c] ELSE @,
                         !.post = IF cl.kind = "run" THEN out.st ELSE @,
                         !.st = IF panicked THEN "panic"
                                ELSE IF rest = <<>> THEN "done"
                                ELSE IF GuardDropped(rest) THEN "queued"
                                ELSE "running"]]
        /\ lock' = [lock EXCEPT ![c] = IF GuardDropped(rest) THEN 0 ELSE t]
        /\ pending' = IF rest = <<>> THEN [pending EXCEPT ![t] = @ - 1]
                       ELSE pending
        /\ frames' = [u \in Tasks |->
              IF u = t THEN Replay(frames[u], cl.kind, real, fate, db[c], out.st)
              ELSE IF handle[u] = c THEN ReplayOther(frames[u], real, fate)
              ELSE frames[u]]
        /\ done' = NoDone
        /\ UNCHANGED <<handle, pc, calls, retained>>

----------------------------------------------------------------------------
\* Variant: the task does not wait for the closure to end.
JoinReady_NoWait(cl) == cl.st # "none"

\* .await on the JoinHandle: ready once the closure has returned or panicked.
JoinReady(cl) == cl.st \in {"done", "panic"}

\* Variant: the join error is turned into an error value.
JoinUnwrap_AsError(cl) ==
    IF cl.st = "panic" THEN Err(<<"JoinError">>) ELSE cl.fres

\* .unwrap() of the join result: a panic of the closure is propagated.
JoinUnwrap(cl) == IF cl.st = "panic" THEN Panic ELSE cl.fres

\* Variant: the block's value is returned whatever commit did.
CommitResult_IgnoresCommit(user, r) == user

\* Ok(value) => { commit.await?; Ok(value) }
CommitResult(user, r) == IF r.tag = "Ok" THEN user ELSE Err(ConnErrToE(r.v))

\* Variant: the user's error is returned whatever rollback did.
RollbackResult_UserErrorOnly(user, r) == user

\* Err(user_error) => match rollback.await
\*     { Ok(()) => Err(user_error), Err(err) => Err(err.into()) }
RollbackResult(user, r) == IF r.tag = "Ok" THEN user ELSE Err(ConnErrToE(r.v))

\* A call resolves to r (recorded in done): at top level the task is idle
\* again, inside a user block the block goes on with r.  When the call is a
\* transaction_async whose block has run, the task may have kept a copy of
\* the block's handle.
Resolved(t, r, fs, d) ==
    /\ retained' = [retained EXCEPT ![t] =
           IF d.user # NoRes THEN BlockHandle(handle[t]) ELSE @]
    /\ frames' = [frames EXCEPT ![t] =
           IF fs = <<>> THEN fs ELSE [fs EXCEPT ![Len(fs)].lastr = r]]
    /\ pc' = [pc EXCEPT ![t] = IF fs = <<>> THEN "idle" ELSE "block"]
    /\ done' = [d EXCEPT !.task = t, !.res = r]

TxaDone(fr, b, step) ==
    [NoDone EXCEPT !.kind = "txa", !.begin = b, !.user = fr.user,
                   !.step = step, !.pre = fr.pre, !.shadow = fr.shadow,
                   !.post = fr.post, !.intruded = fr.intruded,
                   !.wrote = fr.wrote, !.tm = fr.tm]

\* Variant: the result of the begin relay is not looked at.
BeginSucceeded_Unchecked(r) == TRUE

\* .await? on the begin relay: the function goes on only when it is Ok.
BeginSucceeded(r) == r.tag = "Ok"

\* The task resumes from the await of its closure.
Resume(t) ==
    LET cl == closure[t]
        r == JoinUnwrap(cl)
        fs == frames[t]
        fr == fs[Len(fs)]
    IN  /\ pc[t] = "wait"
        /\ JoinReady(cl)
        /\ closure' = [closure EXCEPT ![t] = NoClosure]
        /\ UNCHANGED <<handle, lock, db, pending, calls>>
        /\ IF r.tag = "Panic"
           THEN /\ pc' = [pc EXCEPT ![t] = "aborted"]
                /\ frames' = [frames EXCEPT ![t] = <<>>]
                /\ done' = NoDone
                /\ UNCHANGED retained
           ELSE IF cl.kind \in {"run", "txn"}
           THEN Resolved(t, r, fs,
                    [NoDone EXCEPT !.kind = cl.kind, !.conn = cl.conn,
                                   !.op = cl.op,
                                   !.pre = cl.pre, !.post = cl.post])
           ELSE IF cl.kind = "begin"
           THEN IF BeginSucceeded(r)
                THEN /\ pc' = [pc EXCEPT ![t] = "block"]
                     /\ done' = NoDone
                     /\ frames' = [frames EXCEPT ![t][Len(fs)].begin = r]
                     /\ UNCHANGED retained
                ELSE Resolved(t, Err(ConnErrToE(r.v)), DropTop(fs),
                              TxaDone(fr, r, NoRes))
           ELSE IF cl.kind = "commit"
           THEN Resolved(t, CommitResult(fr.user, r), DropTop(fs),
                         TxaDone(fr, fr.begin, r))
           ELSE Resolved(t, RollbackResult(fr.user, r), DropTop(fs),
                         TxaDone(fr, fr.begin, r))

\* What the user block may return: a value, an error of its own, or the
\* error of its last operation passed on with `?`.
BlockResults(fr) ==
    {Ok(UserValue), Err(UserError)} \cup
    (IF fr.lastr.tag = "Err"
     THEN {Err(IF Head(fr.lastr.v) = "E" THEN fr.lastr.v
               ELSE ConnErrToE(fr.lastr.v))}
     ELSE {})

\* Variant: the wrapper commits whatever the block returned.
FinishKind_AlwaysCommit(res) == "commit"

\* match f(async_conn).await { Ok(value) => commit, Err(user_error) =>
\* rollback }
FinishKind(res) == IF res.tag = "Ok" THEN "commit" ELSE "rollback"

\* match f(async_conn).await: the block has returned; submit commit or
\* rollback.
BlockReturns(t, res) ==
    LET fs == frames[t] IN
    /\ pc[t] = "block"
    /\ res \in BlockResults(fs[Len(fs)])
    /\ frames' = [frames EXCEPT ![t][Len(fs)].user = res]
    /\ SpawnBlocking(t, handle[t], FinishKind(res),
                     <<TmInstr(FinishKind(res))>>)
    /\ UNCHANGED <<handle, lock, db, calls, retained>>

\* Variant: unwinding out of the user block rolls the transaction back.
BlockPanics_RollsBack(t) ==
    /\ pc[t] = "block"
    /\ lock[handle[t]] = 0
    /\ pc' = [pc EXCEPT ![t] = "unwound"]
    /\ frames' = [frames EXCEPT ![t] = <<>>]
    /\ db' = [db EXCEPT ![handle[t]] = RollbackTransaction(@).st]
    /\ done' = NoDone
    /\ UNCHANGED <<handle, closure, lock, pending, calls, retained>>

\* The user block panics, or the future of transaction_async is dropped
\* while the block is suspended with no closure of its own outstanding: the
\* task leaves transaction_async at the await of f, and the code after it
\* does not run.
BlockPanics(t) ==
    /\ pc[t] = "block"
    /\ pc' = [pc EXCEPT ![t] = "unwound"]
    /\ frames' = [frames EXCEPT ![t] = <<>>]
    /\ done' = NoDone
    /\ UNCHANGED <<handle, closure, lock, db, pending, calls, retained>>

TaskStep(t) ==
    \/ \E h \in Conns, op \in Ops : Run(t, h, op)
    \/ \E op \in Ops : Transaction(t, op)
    \/ TransactionAsync(t)
    \/ Resume(t)
    \/ \E res \in {Ok(UserValue), Err(UserError)} \cup
                  {Err(ConnErrToE(DieselToConnErr(<<"UniqueViolation">>)))} \cup
                  {Err(DieselToE(<<e>>)) :
                      e \in {"UniqueViolation", "begin", "commit", "rollback",
                             "NotInTransaction"}} \cup
                  {Err(ConnErrToE(ConnErrToE(DieselToConnErr(<<e>>)))) :
                      e \in {"begin", "commit", "rollback",
                             "NotInTransaction"}} :
          BlockReturns(t, res)
    \/ BlockPanics(t)

PoolStep(t) == \E fate \in {"ok", "fail", "panic"} : ClosureStep(t, fate)

Next == \E t \in Tasks : TaskStep(t) \/ PoolStep(t)

Spec == Init /\ [][Next]_vars

SpecIndependent == InitIndependent /\ [][Next]_vars

\* Fair scheduling: every task that can take a step eventually does, and
\* every submitted closure gets a pool thread and returns or panics.
FairSpec ==
    Spec /\ \A t \in Tasks : WF_vars(TaskStep(t)) /\ WF_vars(PoolStep(t))

----------------------------------------------------------------------------
\* Shorthands for the properties.
Shares(t, u) == t # u /\ handle[t] = handle[u]
Outstanding(t) == closure[t].st \in {"queued", "running"}
Terminated(t) == pc[t] \in {"aborted", "unwound"}
TxaBegun == done.kind = "txa" /\ done.begin.tag = "Ok"

\* C1: when begin succeeded and the user block of transaction_async failed
\* with X, the call resolves to failure X if rollback succeeded and to the
\* conversion of rollback's error Y if rollback failed, and to nothing else.
C1_RollbackResult ==
    (TxaBegun /\ done.user.tag = "Err") =>
        /\ done.step.tag \in {"Ok", "Err"}
        /\ done.step.tag = "Ok" => SameRes(done.res, done.user)
        /\ done.step.tag = "Err" =>
               SameRes(done.res, Err(ConnErrToE(done.step.v)))

C1_Witness ==
    /\ TxaBegun /\ done.user.tag = "Err"
    /\ done.step.tag = "Err"
    /\ ~SameRes(done.res, done.user)

\* C2: when the user block of transaction_async succeeded and commit
\* succeeded, the connection right after commit is the one a single
\* synchronous transaction (begin, the queries run meanwhile, commit) would
\* have left, whatever the other holders of the handle did meanwhile.
C2_CommitAsOneTransaction ==
    (TxaBegun /\ done.user.tag = "Ok" /\ done.step.tag = "Ok") =>
        done.post = done.shadow

\* C3: at most one blocking closure executes against a connection at a time.
C3_OneClosurePerConnection ==
    \A t, u \in Tasks :
        (Shares(t, u) /\ closure[t].st = "running") =>
            closure[u].st # "running"

C3_Witness ==
    \E t, u \in Tasks :
        /\ Shares(t, u)
        /\ closure[t].st = "running"
        /\ closure[u].st = "queued"

\* C4: a task whose closure panicked never resolves its call: its next step
\* terminates it abnormally and resolves nothing, also when the closure was
\* the begin, commit or rollback of transaction_async; and a terminated task
\* stays terminated.
C4_PanicPropagates ==
    [][\A t \in Tasks :
          /\ (closure[t].st = "panic" /\ pc'[t] # pc[t]) =>
                 (pc'[t] = "aborted" /\ done'.task # t)
          /\ Terminated(t) => (pc'[t] = pc[t] /\ done'.task # t)]_vars

C4_Witness ==
    \E t \in Tasks : pc[t] = "aborted" /\ Depth(db[handle[t]]) = 1 /\ calls = 1

\* C5: the closures one task submits run one after the other in the order
\* of submission: a task submits a closure only when every closure it
\* submitted before has ended, so at most one is outstanding and it is the
\* one the task awaits.
C5_SequentialOrder ==
    \A t \in Tasks :
        /\ pending[t] <= 1
        /\ pc[t] # "wait" => pending[t] = 0
        /\ pending[t] = 1 <=> Outstanding(t)

C5_Witness ==
    /\ done.kind = "txa" /\ done.step.tag = "Ok" /\ done.user.tag = "Ok"
    /\ Top(done.post) # Top(done.pre)
    /\ ~done.intruded

\* C6: when the user block of transaction_async has written and fails, and
\* rollback succeeds, the call reports the block's failure and the table is
\* what it was before begin.
C6_RollbackRestores ==
    (TxaBegun /\ done.wrote /\ done.user.tag = "Err" /\ done.step.tag = "Ok") =>
        /\ SameRes(done.res, done.user)
        /\ Top(done.post) = Top(done.pre)

\* C7: a closure submitted for a connection nobody else shares can always
\* run its next instruction, whatever the closures of the other connection
\* are doing.
C7_IndependentConnections ==
    \A t \in Tasks :
        ((\A u \in Tasks \ {t} : handle[u] # handle[t]) /\ Outstanding(t)) =>
            ENABLED ClosureStep(t, "ok")

C7_Witness ==
    \E t, u \in Tasks :
        /\ handle[t] # handle[u]
        /\ closure[t].st = "running"
        /\ closure[u].st = "done"

C9_SyncTransactionIsOneUnit ==
    \A t \in Tasks :
        (closure[t].kind = "txn" /\ closure[t].st # "queued") =>
            /\ ~closure[t].intruded
            /\ InSyncTransaction(closure[t]) =>
                   (lock[handle[t]] = t /\ closure[t].st = "running")

C9_Witness ==
    \E t, u \in Tasks :
        /\ Shares(t, u)
        /\ InSyncTransaction(closure[t])
        /\ closure[u].st = "queued"

\* C10: under fair scheduling every call resolves or terminates abnormally,
\* a task leaves an await only when its closure has returned or panicked,
\* and no task holds the connection while its user block runs.
C10_EveryCallEnds ==
    /\ \A t \in Tasks : pc[t] \in {"wait", "block"} ~>
                            (pc[t] = "idle" \/ Terminated(t))
    /\ [][\A t \in Tasks : (pc[t] = "wait" /\ pc'[t] # "wait") =>
                               closure[t].st \in {"done", "panic"}]_vars
    /\ [](\A t \in Tasks : pc[t] = "block" => lock[handle[t]] # t)

C10_Witness ==
    \E t \in Tasks :
        /\ done.kind = "run" /\ done.task = t
        /\ pc[t] = "block" /\ Len(frames[t]) = 1

\* C11: a transaction_async call whose begin succeeded calls the
\* transaction manager exactly twice: begin, before its user block starts,
\* and, once the block has returned, commit if the block returned Ok and
\* rollback if it returned Err; while the block runs only begin has been
\* called, and nothing is called after the commit or rollback.
BlockRunning(t, i) ==
    \/ i < Len(frames[t])
    \/ pc[t] = "block"
    \/ pc[t] = "wait" /\ closure[t].kind \in {"run", "txn"}

C11_TransactionManagerCalls ==
    /\ \A t \in Tasks : \A i \in 1..Len(frames[t]) :
          LET fr == frames[t][i]
              k == closure[t].kind
          IN  /\ BlockRunning(t, i) =>
                     (fr.tm = <<"begin">> /\ fr.user = NoRes)
              /\ (i = Len(frames[t]) /\ k = "begin") =>
                     (fr.tm \in {<<>>, <<"begin">>} /\ fr.user = NoRes)
              /\ (i = Len(frames[t]) /\ k \in {"commit", "rollback"}) =>
                     /\ fr.user.tag \in {"Ok", "Err"}
                     /\ k = "commit" <=> fr.user.tag = "Ok"
                     /\ fr.tm \in {<<"begin">>, <<"begin", k>>}
    /\ TxaBegun =>
          done.tm = <<"begin", IF done.user.tag = "Ok" THEN "commit"
                               ELSE "rollback">>

C11_Witness ==
    /\ TxaBegun /\ done.user.tag = "Err"
    /\ done.tm = <<"begin", "rollback">>
    /\ Len(frames[done.task]) = 1

\* C12: when the begin relay of transaction_async fails with error B, the
\* call resolves to the failure E::from(B), the user block has not run
\* (it has returned nothing and issued nothing), and begin is the only
\* transaction-manager call the call has made.
C12_BeginFailure ==
    (done.kind = "txa" /\ done.begin.tag = "Err") =>
        /\ done.begin.v = <<"ConnErr", "begin">>
        /\ SameRes(done.res, Err(<<"E", "ConnErr", "begin">>))
        /\ done.user = NoRes /\ done.step = NoRes
        /\ ~done.wrote
        /\ done.tm = <<"begin">>
        /\ done.post = <<>>

C12_Witness ==
    /\ done.kind = "txa" /\ done.begin.tag = "Err"
    /\ pc[done.task] = "block"

\* C13: when the user block of transaction_async returned Ok(V) and the
\* commit relay failed with error C, the call resolves to the failure
\* E::from(C) and never to Ok(V), and commit is the last transaction-manager
\* call it made (no rollback follows); the call resolves to Ok(V) only when
\* commit returned Ok.
C13_CommitFailure ==
    (TxaBegun /\ done.user.tag = "Ok") =>
        /\ done.step.tag = "Err" =>
               /\ done.res.tag = "Err"
               /\ done.res.v = <<"E">> \o done.step.v
               /\ Head(done.step.v) = "ConnErr"
               /\ done.tm = <<"begin", "commit">>
        /\ done.res.tag = "Ok" =>
               (done.step.tag = "Ok" /\ SameRes(done.res, done.user))

C13_Witness ==
    /\ TxaBegun /\ done.user.tag = "Ok"
    /\ done.step.tag = "Err"
    /\ done.wrote

\* C14: the copy of the block's handle a task keeps from a concluded
\* transaction_async refers to the connection the transaction ran on and
\* stays usable: the task can call through it, and a query it runs after
\* the call has returned executes on that connection as a direct query does
\* on the connection as it then is, with no transaction_async of the task
\* open to commit it or roll it back.
C14_RetainedHandle ==
    \A t \in Tasks :
        retained[t] # 0 =>
            /\ retained[t] = handle[t]
            /\ (pc[t] = "idle" /\ CanCall(t)) =>
                   \A op \in Ops : ENABLED Run(t, retained[t], op)
            /\ (done.kind = "run" /\ done.task = t /\ pc[t] = "idle") =>
                   /\ done.conn = handle[t]
                   /\ done.post = SyncOp(done.op, done.pre).st
                   /\ frames[t] = <<>>

C14_Witness ==
    \E t \in Tasks :
        /\ retained[t] # 0 /\ pc[t] = "idle" /\ calls = 2
        /\ done.kind = "run" /\ done.task = t /\ done.res.tag = "Ok"
        /\ done.conn = retained[t]
        /\ Depth(done.pre) = 0 /\ Top(done.post) # Top(done.pre)

\* C15: no instruction of another task that holds a clone of the handle
\* runs on the connection after the begin of a transaction_async call and
\* before its commit or rollback.
C15_NoForeignOperationInside ==
    TxaBegun => ~done.intruded

\* C16: when begin and the commit or rollback of a transaction_async call
\* both succeeded, the connection is, right after that commit or rollback,
\* at the transaction depth it had right before begin; also for a call made
\* inside a user block.
C16_DepthRestored ==
    (TxaBegun /\ done.step.tag = "Ok") =>
        Depth(done.post) = Depth(done.pre)

\* C17: when a task leaves transaction_async because its user block
\* panicked or its future was dropped, it submits no closure then or later
\* (so neither commit nor rollback), the connection is left as it was, and
\* the transactions it had begun stay open on its connection.
C17_PanicLeavesTransactionOpen ==
    /\ [][\A t \in Tasks :
            (pc[t] = "block" /\ pc'[t] = "unwound") =>
                /\ closure'[t] = NoClosure
                /\ pending'[t] = 0
                /\ db' = db
                /\ Depth(db[handle[t]]) >= Len(frames[t])
                /\ Len(frames[t]) >= 1]_vars
    /\ [](\A t \in Tasks :
            pc[t] = "unwound" =>
                (closure[t] = NoClosure /\ Depth(db[handle[t]]) >= 1))

C17_Witness ==
    \E t \in Tasks :
        /\ pc[t] = "unwound"
        /\ Depth(db[handle[t]]) = 1
        /\ Top(db[handle[t]]) # {} /\ db[handle[t]][1] = {}

====
